---- MODULE Spec2Model ----
(***************************************************************************)
(* Numflux: the numeric-input reducer (src/src/core/numpad.ts), its        *)
(* sanitizer (src/src/utils/validation.utils.ts) and the mask engine       *)
(* (mask.utils.ts).  Strings are sequences of one-character strings.       *)
(***************************************************************************)
EXTENDS Integers, Sequences, FiniteSets, TLC

\* config: the configuration the caller passes to every call
\* state: the NumpadState the caller holds
\* dispatched: the type of the action the caller passed to reduceNumpad last
\* previous: the value the last action was applied to ("" when that action was
\*           clear or set, which do not read it)
\* returned: what the caller's last call of parseMask, mapKeyToAction or
\*           formatDisplayValue on the state it holds was given and returned
\* dom: what createNumpadDom holds besides config and state: the callbacks of
\*      its options, the display, the disabled buttons, and, of the last
\*      event, the event, the announcement it scheduled and the callbacks it
\*      called
VARIABLES config, state, dispatched, previous, returned, dom

vars == <<config, state, dispatched, previous, returned, dom>>

(***************************************************************************)
(* Bounds of the model                                                     *)
(***************************************************************************)
\* longest initial value handed to createNumpadState
MaxInitLen == 3
\* longest mask string handed to parseMask
MaxMaskLen == 5
\* longest value handed to the set action
MaxSetLen == 2
\* the growing actions (digit, decimal, toggle-sign) stop at this length of value
MaxValueLen == 3
\* the same limit where the editing actions run alone from the empty value
MaxEditLen == 4

\* the characters of the strings a caller passes in: digits, the sign, the marks
\* "." and ",", the fraction bar and a blank (which is also the character that is
\* none of these)
InputChars == {"0", "1", "-", ".", ",", "/", " "}
\* the digits of the digit action
Digits == {0, 1}
\* the characters of a mask string: the slot, the thousands mark, the decimal
\* mark, the fraction bar and a literal
MaskChars == {"_", ".", ",", "/", "x"}

(***************************************************************************)
(* Optional values (null / undefined)                                      *)
(***************************************************************************)
None == <<>>
Some(x) == <<x>>
IsSome(o) == o # <<>>
Get(o) == o[1]

(***************************************************************************)
(* String helpers (JavaScript String methods)                              *)
(***************************************************************************)
Strings(chars, n) == UNION {[1..k -> chars] : k \in 0..n}

\* s.slice(i) with 0-based i >= 0
SliceFrom(s, i) == IF i >= Len(s) THEN <<>> ELSE SubSeq(s, i + 1, Len(s))

\* s.slice(0, n) with n >= 0
SliceTo(s, n) == IF n >= Len(s) THEN s ELSE SubSeq(s, 1, n)

\* s.slice(0, -1)
DropLast(s) == IF Len(s) = 0 THEN <<>> ELSE SubSeq(s, 1, Len(s) - 1)

\* s.startsWith(p)
StartsWith(s, p) == Len(s) >= Len(p) /\ SubSeq(s, 1, Len(p)) = p

\* s.endsWith(p)
EndsWith(s, p) == Len(s) >= Len(p) /\ SubSeq(s, Len(s) - Len(p) + 1, Len(s)) = p

\* s.indexOf(c, i - 1) + 1: the first index >= i that holds c, 0 when there is none
RECURSIVE IndexFrom(_, _, _)
IndexFrom(s, c, i) == IF i > Len(s) THEN 0 ELSE IF s[i] = c THEN i ELSE IndexFrom(s, c, i + 1)

\* s.indexOf(c), 1-based, 0 when absent
IndexOf(s, c) == IndexFrom(s, c, 1)

\* s.includes(c)
Includes(s, c) == IndexOf(s, c) # 0

AllDigits == <<"0", "1", "2", "3", "4", "5", "6", "7", "8", "9">>

IsDigitChar(c) == c \in {"0", "1", "2", "3", "4", "5", "6", "7", "8", "9"}

DigitVal(c) == IndexOf(AllDigits, c) - 1

\* digit.toString() / String(digit)
DigitStr(d) == AllDigits[d + 1]

\* number of occurrences of c in s
Count(s, c) == Cardinality({i \in 1..Len(s) : s[i] = c})

\* number of decimal digits in s
CountDigits(s) == Cardinality({i \in 1..Len(s) : IsDigitChar(s[i])})

\* s.split(c)[0]
SplitHead(s, c) == LET i == IndexOf(s, c) IN IF i # 0 THEN SubSeq(s, 1, i - 1) ELSE s

\* s.split(c).slice(1).join(c): everything after the first c
SplitRest(s, c) == LET i == IndexOf(s, c) IN IF i # 0 THEN SliceFrom(s, i) ELSE <<>>

\* s.split(c)[1] (undefined becomes ""): the piece between the first and the second c
SplitSecond(s, c) == SplitHead(SplitRest(s, c), c)

\* s.split(c).length
SplitLength(s, c) == Count(s, c) + 1

\* s.replace(c, r): the first occurrence only
ReplaceFirst(s, c, r) == LET i == IndexOf(s, c) IN IF i # 0 THEN SubSeq(s, 1, i - 1) \o r \o SliceFrom(s, i) ELSE s

RECURSIVE TrimLeft(_)
TrimLeft(s) == IF Len(s) > 0 /\ Head(s) = " " THEN TrimLeft(Tail(s)) ELSE s

RECURSIVE TrimRight(_)
TrimRight(s) == IF Len(s) > 0 /\ s[Len(s)] = " " THEN TrimRight(DropLast(s)) ELSE s

\* s.trim()
Trim(s) == TrimRight(TrimLeft(s))

\* s.replace(/^0+(?=\d)/, "")
RECURSIVE StripLeadingZeros(_)
StripLeadingZeros(s) == IF Len(s) >= 2 /\ s[1] = "0" /\ IsDigitChar(s[2]) THEN StripLeadingZeros(Tail(s)) ELSE s

\* the integer a string of digits denotes
RECURSIVE IntVal(_)
IntVal(s) == IF Len(s) = 0 THEN 0 ELSE 10 * IntVal(DropLast(s)) + DigitVal(s[Len(s)])

AllDigitChars(s) == \A i \in 1..Len(s) : IsDigitChar(s[i])

(***************************************************************************)
(* Configuration (NumpadConfig, normalizeConfig)                           *)
(***************************************************************************)
\* allowDecimal is boolean | number: isNum tells which, val is the number (a boolean is 0 or 1)
AllowDecimalBool(b) == [isNum |-> FALSE, val |-> IF b THEN 1 ELSE 0]
AllowDecimalNum(n) == [isNum |-> TRUE, val |-> n]

\* JavaScript truthiness of allowDecimal: false and 0 are falsy
Truthy(allowDecimal) == allowDecimal.val # 0

DEFAULT_CONFIG == [allowDecimal |-> AllowDecimalBool(TRUE), allowNegative |-> TRUE, maxDigits |-> None, minDigits |-> None, decimalSeparator |-> ".", minValue |-> None, maxValue |-> None, sync |-> FALSE, mask |-> None]

(***************************************************************************)
(* Numbers: Number(string) restricted to the characters of the model.      *)
(* A number is [neg, int, frac]: sign, integer part, and the fractional    *)
(* digits without trailing zeros.  NaN is None.                            *)
(***************************************************************************)
RECURSIVE StripTrailingZeros(_)
StripTrailingZeros(s) == IF Len(s) > 0 /\ s[Len(s)] = "0" THEN StripTrailingZeros(DropLast(s)) ELSE s

\* StrUnsignedDecimalLiteral: digits, at most one ".", at least one digit
IsUnsignedDecimalLiteral(s) == /\ \A i \in 1..Len(s) : IsDigitChar(s[i]) \/ s[i] = "."
                               /\ Count(s, ".") <= 1
                               /\ CountDigits(s) >= 1

JsNumber(value) == LET t == Trim(value)
                       neg == Len(t) > 0 /\ Head(t) = "-"
                       body == IF neg THEN Tail(t) ELSE t
                   IN IF t = <<>> THEN Some([neg |-> FALSE, int |-> 0, frac |-> <<>>])
                      ELSE IF IsUnsignedDecimalLiteral(body) THEN Some([neg |-> neg, int |-> IntVal(SplitHead(body, ".")), frac |-> StripTrailingZeros(SplitRest(body, "."))])
                      ELSE None

\* numeric < m and numeric > m for an integer m
NumLess(n, m) == IF n.neg THEN n.int > -m \/ (n.int = -m /\ n.frac # <<>>) ELSE n.int < m
NumGreater(n, m) == IF n.neg THEN n.int < -m ELSE n.int > m \/ (n.int = m /\ n.frac # <<>>)

toNumber(value) == IF value = <<>> \/ value = <<"-">> THEN None ELSE JsNumber(value)

(***************************************************************************)
(* validation.utils.ts                                                     *)
(***************************************************************************)
\* normalizeLeadingZeros that returns the value as it is
normalizeLeadingZeros_KeepsZeros(value, hasDecimal) == value

normalizeLeadingZeros(value, hasDecimal) ==
    IF value = <<>> THEN <<>>
    ELSE IF hasDecimal
         THEN LET intPart == SplitHead(value, ".")
                  stripped == StripLeadingZeros(intPart)
                  trimmedInt == IF stripped = <<>> THEN <<"0">> ELSE stripped
                  fractional == SplitRest(value, ".")
              IN IF fractional # <<>> THEN trimmedInt \o <<".">> \o fractional ELSE trimmedInt \o <<".">>
         ELSE LET stripped == StripLeadingZeros(value) IN IF stripped = <<>> THEN <<"0">> ELSE stripped

\* one step of the scan of sanitizeValue over a character
SanitizeStep(acc, char, cfg) ==
    IF char = "-" /\ cfg.allowNegative /\ ~acc.isNegative /\ Len(acc.normalizedChars) = 0
    THEN [acc EXCEPT !.isNegative = TRUE]
    ELSE IF char \in {".", cfg.decimalSeparator} /\ Truthy(cfg.allowDecimal) /\ ~acc.hasDecimal
    THEN [acc EXCEPT !.hasDecimal = TRUE, !.normalizedChars = Append(@, ".")]
    ELSE IF IsDigitChar(char)
    THEN IF IsSome(cfg.maxDigits) /\ acc.digitCount >= Get(cfg.maxDigits)
         THEN acc
         ELSE [acc EXCEPT !.normalizedChars = Append(@, char), !.digitCount = @ + 1]
    ELSE acc

RECURSIVE SanitizeScan(_, _, _)
SanitizeScan(chars, acc, cfg) == IF chars = <<>> THEN acc ELSE SanitizeScan(Tail(chars), SanitizeStep(acc, Head(chars), cfg), cfg)

sanitizeValue(value, cfg) ==
    LET acc == SanitizeScan(Trim(value), [normalizedChars |-> <<>>, hasDecimal |-> FALSE, isNegative |-> FALSE, digitCount |-> 0], cfg)
        unsignedValue == normalizeLeadingZeros(acc.normalizedChars, acc.hasDecimal)
    IN IF unsignedValue # <<>> THEN (IF acc.isNegative THEN <<"-">> ELSE <<>>) \o unsignedValue
       ELSE IF acc.isNegative THEN <<"-">> ELSE <<>>

(***************************************************************************)
(* numpad.ts: validation and the standard-mode value transforms            *)
(***************************************************************************)
NoError == "null"

\* validateValue without the early return for "" and "-", converting with Number directly
validateValue_NoMidEntry(value, cfg) ==
    LET numericValue == JsNumber(value)
        digitCount == Len(value) - Count(value, "-") - Count(value, ".")
    IN IF ~IsSome(numericValue) THEN NoError
       ELSE IF IsSome(cfg.minValue) /\ NumLess(Get(numericValue), Get(cfg.minValue)) THEN "minValue"
       ELSE IF IsSome(cfg.maxValue) /\ NumGreater(Get(numericValue), Get(cfg.maxValue)) THEN "maxValue"
       ELSE IF IsSome(cfg.minDigits) /\ digitCount < Get(cfg.minDigits) THEN "minDigits"
       ELSE IF IsSome(cfg.maxDigits) /\ digitCount > Get(cfg.maxDigits) THEN "maxDigits"
       ELSE NoError

validateValue(value, cfg) ==
    IF value = <<>> \/ value = <<"-">> THEN NoError
    ELSE LET numericValue == toNumber(value)
             digitCount == Len(value) - Count(value, "-") - Count(value, ".")
         IN IF ~IsSome(numericValue) THEN NoError
            ELSE IF IsSome(cfg.minValue) /\ NumLess(Get(numericValue), Get(cfg.minValue)) THEN "minValue"
            ELSE IF IsSome(cfg.maxValue) /\ NumGreater(Get(numericValue), Get(cfg.maxValue)) THEN "maxValue"
            ELSE IF IsSome(cfg.minDigits) /\ digitCount < Get(cfg.minDigits) THEN "minDigits"
            ELSE IF IsSome(cfg.maxDigits) /\ digitCount > Get(cfg.maxDigits) THEN "maxDigits"
            ELSE NoError

\* appendDigit that appends to a lone zero as to any other value
appendDigit_KeepsLeadingZero(current, digit, cfg) ==
    LET isNegative == StartsWith(current, <<"-">>)
        unsigned == IF isNegative THEN SliceFrom(current, 1) ELSE current
        hasDecimal == Includes(unsigned, ".")
        digitCount == Len(ReplaceFirst(unsigned, ".", <<>>))
        sign == IF isNegative THEN <<"-">> ELSE <<>>
    IN IF IsSome(cfg.maxDigits) /\ digitCount >= Get(cfg.maxDigits) THEN current
       ELSE IF hasDecimal /\ cfg.allowDecimal.isNum /\ Len(SplitSecond(unsigned, ".")) >= cfg.allowDecimal.val THEN current
       ELSE sign \o unsigned \o <<DigitStr(digit)>>

\* appendDigit without the check of the decimal places
appendDigit_NoDecimalCap(current, digit, cfg) ==
    LET isNegative == StartsWith(current, <<"-">>)
        unsigned == IF isNegative THEN SliceFrom(current, 1) ELSE current
        hasDecimal == Includes(unsigned, ".")
        digitCount == Len(ReplaceFirst(unsigned, ".", <<>>))
        sign == IF isNegative THEN <<"-">> ELSE <<>>
    IN IF IsSome(cfg.maxDigits) /\ digitCount >= Get(cfg.maxDigits) THEN current
       ELSE IF unsigned = <<>> \/ unsigned = <<"0">>
            THEN sign \o (IF digit = 0 /\ ~hasDecimal THEN <<"0">> ELSE <<DigitStr(digit)>>)
            ELSE sign \o unsigned \o <<DigitStr(digit)>>

appendDigit(current, digit, cfg) ==
    LET isNegative == StartsWith(current, <<"-">>)
        unsigned == IF isNegative THEN SliceFrom(current, 1) ELSE current
        hasDecimal == Includes(unsigned, ".")
        digitCount == Len(ReplaceFirst(unsigned, ".", <<>>))
        sign == IF isNegative THEN <<"-">> ELSE <<>>
    IN IF IsSome(cfg.maxDigits) /\ digitCount >= Get(cfg.maxDigits) THEN current
       ELSE IF hasDecimal /\ cfg.allowDecimal.isNum /\ Len(SplitSecond(unsigned, ".")) >= cfg.allowDecimal.val THEN current
       ELSE IF unsigned = <<>> \/ unsigned = <<"0">>
            THEN sign \o (IF digit = 0 /\ ~hasDecimal THEN <<"0">> ELSE <<DigitStr(digit)>>)
            ELSE sign \o unsigned \o <<DigitStr(digit)>>

\* appendDecimal that appends the mark to the unsigned part as it is
appendDecimal_NoLeadingZero(current, cfg) ==
    LET isNegative == StartsWith(current, <<"-">>)
        unsigned == IF isNegative THEN SliceFrom(current, 1) ELSE current
    IN IF ~Truthy(cfg.allowDecimal) THEN current
       ELSE IF Includes(unsigned, ".") THEN current
       ELSE (IF isNegative THEN <<"-">> ELSE <<>>) \o unsigned \o <<".">>

appendDecimal(current, cfg) ==
    LET isNegative == StartsWith(current, <<"-">>)
        unsigned == IF isNegative THEN SliceFrom(current, 1) ELSE current
        base == IF unsigned = <<>> THEN <<"0">> ELSE unsigned
    IN IF ~Truthy(cfg.allowDecimal) THEN current
       ELSE IF Includes(unsigned, ".") THEN current
       ELSE (IF isNegative THEN <<"-">> ELSE <<>>) \o base \o <<".">>

\* deleteChar that returns the shortened value without looking for the lone sign
deleteChar_KeepsLoneSign(current) ==
    IF current = <<>> THEN current ELSE DropLast(current)

deleteChar(current) ==
    IF current = <<>> THEN current
    ELSE IF DropLast(current) = <<"-">> THEN <<>> ELSE DropLast(current)

\* toggleSign that removes a sign only from in front of something
toggleSign_LoneSignKept(current, cfg) ==
    IF ~cfg.allowNegative THEN current
    ELSE IF current = <<>> THEN <<"-">>
    ELSE IF StartsWith(current, <<"-">>) /\ Len(current) > 1 THEN SliceFrom(current, 1) ELSE <<"-">> \o current

\* toggleSign that prepends the sign without looking for one
toggleSign_AlwaysPrepend(current, cfg) ==
    IF ~cfg.allowNegative THEN current ELSE <<"-">> \o current

toggleSign(current, cfg) ==
    IF ~cfg.allowNegative THEN current
    ELSE IF current = <<>> THEN <<"-">>
    ELSE IF StartsWith(current, <<"-">>) THEN SliceFrom(current, 1) ELSE <<"-">> \o current

(***************************************************************************)
(* mask.utils.ts: parsing a mask                                           *)
(***************************************************************************)
\* end of the longest match of (?:_+\.)*_+ that starts at the underscore at index i
\* PatternEnd that ends the match at the first thousands mark
RECURSIVE PatternEnd_StopsAtMark(_, _)
PatternEnd_StopsAtMark(str, i) == IF i < Len(str) /\ str[i + 1] = "_" THEN PatternEnd_StopsAtMark(str, i + 1) ELSE i

RECURSIVE PatternEnd(_, _)
PatternEnd(str, i) ==
    IF i < Len(str) /\ str[i + 1] = "_" THEN PatternEnd(str, i + 1)
    ELSE IF i + 1 < Len(str) /\ str[i + 1] = "." /\ str[i + 2] = "_" THEN PatternEnd(str, i + 2)
    ELSE i

\* the thousandsSeparators of a digit pattern: for each ".", the number of "_" before it
RECURSIVE SeparatorPositions(_, _)
SeparatorPositions(digitPattern, i) ==
    IF i > Len(digitPattern) THEN <<>>
    ELSE IF digitPattern[i] = "." THEN <<Count(SubSeq(digitPattern, 1, i), "_")>> \o SeparatorPositions(digitPattern, i + 1)
    ELSE SeparatorPositions(digitPattern, i + 1)

\* extractPattern whose pattern also matches a string without a slot
extractPattern_MatchesNoSlot(str) ==
    IF ~Includes(str, "_") THEN Some([prefix |-> str, digitLength |-> 0, suffix |-> <<>>, thousandsSeparators |-> <<>>])
    ELSE LET first == IndexOf(str, "_")
             last == PatternEnd(str, first)
             digitPattern == SubSeq(str, first, last)
         IN Some([prefix |-> SubSeq(str, 1, first - 1),
                  digitLength |-> Count(digitPattern, "_"),
                  suffix |-> SliceFrom(str, last),
                  thousandsSeparators |-> SeparatorPositions(digitPattern, 1)])

\* str.match(/^(.*?)((?:_+\.)*_+)(.*)$/): None when there is no match
extractPattern(str) ==
    IF ~Includes(str, "_") THEN None
    ELSE LET first == IndexOf(str, "_")
             last == PatternEnd(str, first)
             digitPattern == SubSeq(str, first, last)
         IN Some([prefix |-> SubSeq(str, 1, first - 1),
                  digitLength |-> Count(digitPattern, "_"),
                  suffix |-> SliceFrom(str, last),
                  thousandsSeparators |-> SeparatorPositions(digitPattern, 1)])

\* seps.length > 0 ? seps : undefined
NonEmptyOrUndefined(seps) == IF Len(seps) > 0 THEN Some(seps) ELSE None

Throw(message) == [throws |-> TRUE, message |-> message]

MaskFormat(mask, type, segments, prefix, suffix, totalSlots) == [throws |-> FALSE, mask |-> mask, type |-> type, segments |-> segments, prefix |-> prefix, suffix |-> suffix, totalSlots |-> totalSlots]

MaskSegment(type, length, startIndex, thousandsSeparators, decimalSeparator) == [type |-> type, length |-> length, startIndex |-> startIndex, thousandsSeparators |-> thousandsSeparators, decimalSeparator |-> decimalSeparator]

\* the branch of parseMask for a mask with both "/" and ","
parseComplexMask(mask) ==
    LET numeratorPart == SplitHead(mask, "/")
        integerPattern == extractPattern(SplitHead(numeratorPart, ","))
        fractionalPattern == extractPattern(SplitRest(numeratorPart, ","))
        denominatorPattern == extractPattern(SplitRest(mask, "/"))
    IN IF SplitLength(mask, "/") # 2 THEN Throw("Fraction mask must have exactly one / separator")
       ELSE IF SplitLength(numeratorPart, ",") # 2 THEN Throw("Complex mask: numerator must be a valid decimal format")
       ELSE IF ~IsSome(integerPattern) THEN Throw("Complex mask: numerator integer part must contain underscores")
       ELSE IF ~IsSome(fractionalPattern) THEN Throw("Complex mask: numerator fractional part must contain underscores")
       ELSE IF ~IsSome(denominatorPattern) THEN Throw("Complex mask: denominator must contain underscores")
       ELSE LET prefix == Get(integerPattern).prefix
                integerLength == Get(integerPattern).digitLength
                numeratorLength == integerLength + Get(fractionalPattern).digitLength
                denominatorLength == Get(denominatorPattern).digitLength
            IN MaskFormat(mask, "fraction",
                          <<MaskSegment("numerator", numeratorLength, Len(prefix), Some(Get(integerPattern).thousandsSeparators), Some(integerLength)),
                            MaskSegment("denominator", denominatorLength, Len(prefix) + numeratorLength + 1, Some(Get(denominatorPattern).thousandsSeparators), None)>>,
                          prefix, Get(denominatorPattern).suffix, numeratorLength + denominatorLength)

\* the branch of parseMask for a mask with "/" and no ","
parseFractionMask(mask) ==
    LET numeratorPattern == extractPattern(SplitHead(mask, "/"))
        denominatorPattern == extractPattern(SplitSecond(mask, "/"))
    IN IF SplitLength(mask, "/") # 2 THEN Throw("Fraction mask must have exactly one / separator")
       ELSE IF ~IsSome(numeratorPattern) THEN Throw("Invalid fraction mask: numerator must contain underscores")
       ELSE IF ~IsSome(denominatorPattern) THEN Throw("Invalid fraction mask: denominator must contain underscores")
       ELSE LET prefix == Get(numeratorPattern).prefix
                numeratorLength == Get(numeratorPattern).digitLength
                denominatorLength == Get(denominatorPattern).digitLength
            IN MaskFormat(mask, "fraction",
                          <<MaskSegment("numerator", numeratorLength, Len(prefix), NonEmptyOrUndefined(Get(numeratorPattern).thousandsSeparators), None),
                            MaskSegment("denominator", denominatorLength, Len(prefix) + numeratorLength + 1, NonEmptyOrUndefined(Get(denominatorPattern).thousandsSeparators), None)>>,
                          prefix, Get(denominatorPattern).suffix, numeratorLength + denominatorLength)

\* the branch of parseMask for a mask with "," and no "/"
parseDecimalMask(mask) ==
    LET integerPattern == extractPattern(SplitHead(mask, ","))
        fractionalPattern == extractPattern(SplitSecond(mask, ","))
    IN IF SplitLength(mask, ",") # 2 THEN Throw("Decimal mask must have exactly one , separator")
       ELSE IF ~IsSome(integerPattern) THEN Throw("Invalid decimal mask: integer part must contain underscores")
       ELSE IF ~IsSome(fractionalPattern) THEN Throw("Invalid decimal mask: fractional part must contain underscores")
       ELSE LET prefix == Get(integerPattern).prefix
                integerLength == Get(integerPattern).digitLength
                fractionalLength == Get(fractionalPattern).digitLength
            IN MaskFormat(mask, "decimal",
                          <<MaskSegment("integer", integerLength, Len(prefix), NonEmptyOrUndefined(Get(integerPattern).thousandsSeparators), None),
                            MaskSegment("fractional", fractionalLength, Len(prefix) + integerLength + 1, None, None)>>,
                          prefix, Get(fractionalPattern).suffix, integerLength + fractionalLength)

\* the branch of parseMask for a mask with neither "/" nor ","
parseSimpleMask(mask) ==
    LET pattern == extractPattern(mask)
    IN IF ~IsSome(pattern) THEN Throw("Invalid mask: must contain at least one underscore")
       ELSE MaskFormat(mask, "simple",
                       <<MaskSegment("integer", Get(pattern).digitLength, Len(Get(pattern).prefix), NonEmptyOrUndefined(Get(pattern).thousandsSeparators), None)>>,
                       Get(pattern).prefix, Get(pattern).suffix, Get(pattern).digitLength)

\* parseMask that takes every mask with a "/" for a plain fraction
parseMask_FractionFirst(mask) ==
    LET hasFraction == Includes(mask, "/")
        hasDecimal == Includes(mask, ",")
    IN IF hasFraction THEN parseFractionMask(mask)
       ELSE IF hasDecimal THEN parseDecimalMask(mask)
       ELSE parseSimpleMask(mask)

parseMask(mask) ==
    LET hasFraction == Includes(mask, "/")
        hasDecimal == Includes(mask, ",")
    IN IF hasFraction /\ hasDecimal THEN parseComplexMask(mask)
       ELSE IF hasFraction THEN parseFractionMask(mask)
       ELSE IF hasDecimal THEN parseDecimalMask(mask)
       ELSE parseSimpleMask(mask)

(***************************************************************************)
(* mask.utils.ts: the mask edit state                                      *)
(***************************************************************************)
SegmentTypes(format) == {format.segments[i].type : i \in 1..Len(format.segments)}

\* format.segments.findIndex(s => s.type === type), 1-based, 0 when absent
FindIndex(format, type) == IF type \in SegmentTypes(format) THEN CHOOSE i \in 1..Len(format.segments) : format.segments[i].type = type ELSE 0

\* format.segments.find(s => s.type === type), for a type of the format
FindSegment(format, type) == format.segments[FindIndex(format, type)]

\* value with the format's prefix and suffix removed
StripAffixes(value, format) ==
    LET noPrefix == IF format.prefix # <<>> /\ StartsWith(value, format.prefix) THEN SliceFrom(value, Len(format.prefix)) ELSE value
    IN IF format.suffix # <<>> /\ EndsWith(noPrefix, format.suffix) THEN SubSeq(noPrefix, 1, Len(noPrefix) - Len(format.suffix)) ELSE noPrefix

\* parseMaskValue that does not cut the parts to the lengths of their segments
parseMaskValue_NoTruncation(value, format) ==
    LET cleanValue == StripAffixes(value, format)
    IN IF format.type = "fraction"
       THEN [t \in {"numerator", "denominator"} |->
                IF t = "numerator" THEN Trim(SplitHead(cleanValue, "/")) ELSE Trim(SplitSecond(cleanValue, "/"))]
       ELSE IF format.type = "decimal"
       THEN [t \in {"integer", "fractional"} |->
                IF t = "integer" THEN Trim(SplitHead(cleanValue, ",")) ELSE Trim(SplitSecond(cleanValue, ","))]
       ELSE [t \in {"integer"} |-> Trim(cleanValue)]

parseMaskValue(value, format) ==
    LET cleanValue == StripAffixes(value, format)
    IN IF format.type = "fraction"
       THEN [t \in {"numerator", "denominator"} |->
                IF t = "numerator" THEN SliceTo(Trim(SplitHead(cleanValue, "/")), FindSegment(format, "numerator").length)
                ELSE SliceTo(Trim(SplitSecond(cleanValue, "/")), FindSegment(format, "denominator").length)]
       ELSE IF format.type = "decimal"
       THEN [t \in {"integer", "fractional"} |->
                IF t = "integer" THEN SliceTo(Trim(SplitHead(cleanValue, ",")), FindSegment(format, "integer").length)
                ELSE SliceTo(Trim(SplitSecond(cleanValue, ",")), FindSegment(format, "fractional").length)]
       ELSE [t \in {"integer"} |-> SliceTo(Trim(cleanValue), FindSegment(format, "integer").length)]

createMaskState(format, initialValue) ==
    [segments |-> IF initialValue # <<>> THEN parseMaskValue(initialValue, format) ELSE [t \in SegmentTypes(format) |-> <<>>],
     activeSegment |-> format.segments[1].type]

getMaskRawValue(maskState, format) ==
    IF format.type = "fraction" THEN maskState.segments["numerator"] \o <<"/">> \o maskState.segments["denominator"]
    ELSE IF format.type = "decimal" THEN maskState.segments["integer"] \o <<",">> \o maskState.segments["fractional"]
    ELSE maskState.segments["integer"]

formatMaskValue(maskState, format) == format.prefix \o getMaskRawValue(maskState, format) \o format.suffix

\* appendDigitToMask that stays in a full active segment
appendDigitToMask_NoAdvance(maskState, digit, format) ==
    LET currentIndex == FindIndex(format, maskState.activeSegment)
        segment == format.segments[currentIndex]
        currentValue == maskState.segments[maskState.activeSegment]
    IN IF currentIndex = 0 THEN maskState
       ELSE IF Len(currentValue) >= segment.length THEN maskState
       ELSE [maskState EXCEPT !.segments[maskState.activeSegment] = currentValue \o <<DigitStr(digit)>>]

appendDigitToMask(maskState, digit, format) ==
    LET currentIndex == FindIndex(format, maskState.activeSegment)
        segment == format.segments[currentIndex]
        currentValue == maskState.segments[maskState.activeSegment]
    IN IF currentIndex = 0 THEN maskState
       ELSE IF Len(currentValue) >= segment.length
       THEN IF currentIndex + 1 <= Len(format.segments) /\ Len(maskState.segments[format.segments[currentIndex + 1].type]) < format.segments[currentIndex + 1].length
            THEN [segments |-> [maskState.segments EXCEPT ![format.segments[currentIndex + 1].type] = @ \o <<DigitStr(digit)>>],
                  activeSegment |-> format.segments[currentIndex + 1].type]
            ELSE maskState
       ELSE [maskState EXCEPT !.segments[maskState.activeSegment] = currentValue \o <<DigitStr(digit)>>]

\* deleteCharFromMask that steps back to the previous segment without deleting
deleteCharFromMask_StepsBackOnly(maskState, format) ==
    LET currentValue == maskState.segments[maskState.activeSegment]
        currentIndex == FindIndex(format, maskState.activeSegment)
    IN IF Len(currentValue) > 0 THEN [maskState EXCEPT !.segments[maskState.activeSegment] = DropLast(currentValue)]
       ELSE IF currentIndex > 1
       THEN [maskState EXCEPT !.activeSegment = format.segments[currentIndex - 1].type]
       ELSE maskState

\* deleteCharFromMask that deletes from the last segment that holds something
deleteCharFromMask_FromLastFilled(maskState, format) ==
    LET filled == {i \in 1..Len(format.segments) : Len(maskState.segments[format.segments[i].type]) > 0}
        last == CHOOSE i \in filled : \A j \in filled : j <= i
    IN IF filled = {} THEN maskState
       ELSE [segments |-> [maskState.segments EXCEPT ![format.segments[last].type] = DropLast(@)],
             activeSegment |-> format.segments[last].type]

\* deleteCharFromMask that deletes from the previous segment and stays where it is
deleteCharFromMask_KeepsActive(maskState, format) ==
    LET currentValue == maskState.segments[maskState.activeSegment]
        currentIndex == FindIndex(format, maskState.activeSegment)
    IN IF Len(currentValue) > 0 THEN [maskState EXCEPT !.segments[maskState.activeSegment] = DropLast(currentValue)]
       ELSE IF currentIndex > 1
       THEN [maskState EXCEPT !.segments[format.segments[currentIndex - 1].type] = DropLast(@)]
       ELSE maskState

deleteCharFromMask(maskState, format) ==
    LET currentValue == maskState.segments[maskState.activeSegment]
        currentIndex == FindIndex(format, maskState.activeSegment)
    IN IF Len(currentValue) > 0 THEN [maskState EXCEPT !.segments[maskState.activeSegment] = DropLast(currentValue)]
       ELSE IF currentIndex > 1
       THEN [segments |-> [maskState.segments EXCEPT ![format.segments[currentIndex - 1].type] = DropLast(@)],
             activeSegment |-> format.segments[currentIndex - 1].type]
       ELSE maskState

clearMask(format) == createMaskState(format, <<>>)

\* isMaskComplete with some in the place of every
isMaskComplete_SomeSegment(maskState, format) == \E i \in 1..Len(format.segments) : Len(maskState.segments[format.segments[i].type]) = format.segments[i].length

isMaskComplete(maskState, format) == \A i \in 1..Len(format.segments) : Len(maskState.segments[format.segments[i].type]) = format.segments[i].length

RECURSIVE SumLengths(_, _)
SumLengths(segments, types) == IF types = {} THEN 0 ELSE LET t == CHOOSE x \in types : TRUE IN Len(segments[t]) + SumLengths(segments, types \ {t})

getMaskFilledLength(maskState) == SumLengths(maskState.segments, DOMAIN maskState.segments)

(***************************************************************************)
(* numpad.ts: createNumpadState and reduceNumpad                           *)
(***************************************************************************)
\* normalizedConfig.mask is a non-empty string
HasMask(cfg) == IsSome(cfg.mask) /\ Get(cfg.mask) # <<>>

createNumpadState(initialValue, cfg) ==
    LET maskFormat == parseMask(Get(cfg.mask))
    IN IF HasMask(cfg) /\ ~maskFormat.throws
       THEN LET maskState == createMaskState(maskFormat, initialValue)
                value == getMaskRawValue(maskState, maskFormat)
            IN [value |-> value, isPristine |-> TRUE, lastAction |-> "undefined", maskState |-> Some(maskState), validationError |-> validateValue(value, cfg)]
       ELSE LET normalized == sanitizeValue(initialValue, cfg)
            IN [value |-> normalized, isPristine |-> TRUE, lastAction |-> "undefined", maskState |-> None, validationError |-> validateValue(normalized, cfg)]

\* maskActionHandlers[action.type](state, action, maskFormat), for the types that have a handler
MaskHandlerTypes == {"digit", "delete", "clear", "set"}

\* maskActionHandlers whose clear empties the segments and stays in the active one
maskActionHandler_ClearKeepsActive(st, action, maskFormat) ==
    LET newMaskState == IF action.type = "digit" THEN appendDigitToMask(Get(st.maskState), action.digit, maskFormat)
                        ELSE IF action.type = "delete" THEN deleteCharFromMask(Get(st.maskState), maskFormat)
                        ELSE IF action.type = "clear" THEN [clearMask(maskFormat) EXCEPT !.activeSegment = Get(st.maskState).activeSegment]
                        ELSE createMaskState(maskFormat, action.value)
    IN [value |-> getMaskRawValue(newMaskState, maskFormat), maskState |-> Some(newMaskState)]

\* maskActionHandlers that return the new mask state with the value of the old one
maskActionHandler_StaleValue(st, action, maskFormat) ==
    LET newMaskState == IF action.type = "digit" THEN appendDigitToMask(Get(st.maskState), action.digit, maskFormat)
                        ELSE IF action.type = "delete" THEN deleteCharFromMask(Get(st.maskState), maskFormat)
                        ELSE IF action.type = "clear" THEN clearMask(maskFormat)
                        ELSE createMaskState(maskFormat, action.value)
    IN [value |-> st.value, maskState |-> Some(newMaskState)]

maskActionHandler(st, action, maskFormat) ==
    LET newMaskState == IF action.type = "digit" THEN appendDigitToMask(Get(st.maskState), action.digit, maskFormat)
                        ELSE IF action.type = "delete" THEN deleteCharFromMask(Get(st.maskState), maskFormat)
                        ELSE IF action.type = "clear" THEN clearMask(maskFormat)
                        ELSE createMaskState(maskFormat, action.value)
    IN [value |-> getMaskRawValue(newMaskState, maskFormat), maskState |-> Some(newMaskState)]

\* standardActionHandlers[action.type](state, action, config), for the types that have a handler
StandardHandlerTypes == {"digit", "decimal", "delete", "clear", "toggle-sign", "set"}

standardActionHandler(st, action, cfg) ==
    IF action.type = "digit" THEN appendDigit(st.value, action.digit, cfg)
    ELSE IF action.type = "decimal" THEN appendDecimal(st.value, cfg)
    ELSE IF action.type = "delete" THEN deleteChar(st.value)
    ELSE IF action.type = "clear" THEN <<>>
    ELSE IF action.type = "toggle-sign" THEN toggleSign(st.value, cfg)
    ELSE sanitizeValue(action.value, cfg)

\* reduceNumpad that hands an action without a mask handler to the standard handlers
reduceNumpad_MaskFallsThrough(st, action, cfg) ==
    LET next == [st EXCEPT !.lastAction = action.type, !.isPristine = FALSE]
        maskFormat == parseMask(Get(cfg.mask))
    IN IF action.type = "submit" THEN next
       ELSE IF HasMask(cfg) /\ IsSome(st.maskState) /\ (maskFormat.throws \/ action.type \in MaskHandlerTypes)
       THEN IF maskFormat.throws THEN next
            ELSE LET updates == maskActionHandler(st, action, maskFormat)
                 IN [next EXCEPT !.value = updates.value, !.maskState = updates.maskState, !.validationError = validateValue(updates.value, cfg)]
       ELSE IF action.type \in StandardHandlerTypes
       THEN LET value == standardActionHandler(st, action, cfg)
            IN [next EXCEPT !.value = value, !.validationError = validateValue(value, cfg)]
       ELSE next

\* reduceNumpad that goes on in standard mode when parseMask throws
reduceNumpad_StandardOnThrow(st, action, cfg) ==
    LET next == [st EXCEPT !.lastAction = action.type, !.isPristine = FALSE]
        maskFormat == parseMask(Get(cfg.mask))
    IN IF action.type = "submit" THEN next
       ELSE IF HasMask(cfg) /\ IsSome(st.maskState) /\ ~maskFormat.throws
       THEN IF action.type \in MaskHandlerTypes
            THEN LET updates == maskActionHandler(st, action, maskFormat)
                 IN [next EXCEPT !.value = updates.value, !.maskState = updates.maskState, !.validationError = validateValue(updates.value, cfg)]
            ELSE next
       ELSE IF action.type \in StandardHandlerTypes
       THEN LET value == standardActionHandler(st, action, cfg)
            IN [next EXCEPT !.value = value, !.validationError = validateValue(value, cfg)]
       ELSE next

\* reduceNumpad that validates the value it was given, not the one it computed
reduceNumpad_StaleValidation(st, action, cfg) ==
    LET next == [st EXCEPT !.lastAction = action.type, !.isPristine = FALSE]
        maskFormat == parseMask(Get(cfg.mask))
    IN IF action.type = "submit" THEN next
       ELSE IF HasMask(cfg) /\ IsSome(st.maskState)
       THEN IF maskFormat.throws THEN next
            ELSE IF action.type \in MaskHandlerTypes
            THEN LET updates == maskActionHandler(st, action, maskFormat)
                 IN [next EXCEPT !.value = updates.value, !.maskState = updates.maskState, !.validationError = validateValue(st.value, cfg)]
            ELSE next
       ELSE IF action.type \in StandardHandlerTypes
       THEN LET value == standardActionHandler(st, action, cfg)
            IN [next EXCEPT !.value = value, !.validationError = validateValue(st.value, cfg)]
       ELSE next

\* reduceNumpad that copies the state without clearing isPristine
reduceNumpad_KeepsPristine(st, action, cfg) ==
    LET next == [st EXCEPT !.lastAction = action.type]
        maskFormat == parseMask(Get(cfg.mask))
    IN IF action.type = "submit" THEN next
       ELSE IF HasMask(cfg) /\ IsSome(st.maskState)
       THEN IF maskFormat.throws THEN next
            ELSE IF action.type \in MaskHandlerTypes
            THEN LET updates == maskActionHandler(st, action, maskFormat)
                 IN [next EXCEPT !.value = updates.value, !.maskState = updates.maskState, !.validationError = validateValue(updates.value, cfg)]
            ELSE next
       ELSE IF action.type \in StandardHandlerTypes
       THEN LET value == standardActionHandler(st, action, cfg)
            IN [next EXCEPT !.value = value, !.validationError = validateValue(value, cfg)]
       ELSE next

reduceNumpad(st, action, cfg) ==
    LET next == [st EXCEPT !.lastAction = action.type, !.isPristine = FALSE]
        maskFormat == parseMask(Get(cfg.mask))
    IN IF action.type = "submit" THEN next
       ELSE IF HasMask(cfg) /\ IsSome(st.maskState)
       THEN IF maskFormat.throws THEN next
            ELSE IF action.type \in MaskHandlerTypes
            THEN LET updates == maskActionHandler(st, action, maskFormat)
                 IN [next EXCEPT !.value = updates.value, !.maskState = updates.maskState, !.validationError = validateValue(updates.value, cfg)]
            ELSE next
       ELSE IF action.type \in StandardHandlerTypes
       THEN LET value == standardActionHandler(st, action, cfg)
            IN [next EXCEPT !.value = value, !.validationError = validateValue(value, cfg)]
       ELSE next

(***************************************************************************)
(* numpad.ts: mapKeyToAction and formatDisplayValue                        *)
(***************************************************************************)
\* a keyValidator by what a call of it does: there is none, it throws, it
\* returns true or it returns false
KeyValidators == {"absent", "throws", "true", "false"}

\* mapKeyToAction that maps the mark to decimal whatever allowDecimal is
mapKeyToAction_UngatedDecimal(key, cfg, currentValue, keyValidator) ==
    IF keyValidator \in {"false", "throws"} THEN None
    ELSE IF IsDigitChar(key) THEN Some([type |-> "digit", digit |-> DigitVal(key)])
    ELSE IF key = "." \/ key = cfg.decimalSeparator THEN Some([type |-> "decimal"])
    ELSE IF key = "Backspace" THEN Some([type |-> "delete"])
    ELSE IF key = "Delete" THEN Some([type |-> "clear"])
    ELSE IF key = "-" /\ cfg.allowNegative THEN Some([type |-> "toggle-sign"])
    ELSE IF key = "Enter" THEN Some([type |-> "submit"])
    ELSE None

\* the action of a key, None for null
mapKeyToAction(key, cfg, currentValue, keyValidator) ==
    IF keyValidator \in {"false", "throws"} THEN None
    ELSE IF IsDigitChar(key) THEN Some([type |-> "digit", digit |-> DigitVal(key)])
    ELSE IF (key = "." \/ key = cfg.decimalSeparator) /\ Truthy(cfg.allowDecimal) THEN Some([type |-> "decimal"])
    ELSE IF key = "Backspace" THEN Some([type |-> "delete"])
    ELSE IF key = "Delete" THEN Some([type |-> "clear"])
    ELSE IF key = "-" /\ cfg.allowNegative THEN Some([type |-> "toggle-sign"])
    ELSE IF key = "Enter" THEN Some([type |-> "submit"])
    ELSE None

\* s.padEnd(n, c)
padEnd(s, n, c) == IF Len(s) >= n THEN s ELSE s \o [i \in 1..(n - Len(s)) |-> c]

padDecimalPlaces(value, decimalPlaces, separator) ==
    IF value = <<>> THEN <<"0", separator>> \o padEnd(<<>>, decimalPlaces, "0")
    ELSE SplitHead(value, separator) \o <<separator>> \o padEnd(SplitSecond(value, separator), decimalPlaces, "0")

\* a displayRule by what a call of it does: there is none, it throws, it
\* returns the string text, or it returns undefined (which is not a string)
DisplayRule(kind, text) == [kind |-> kind, text |-> text]

DisplayRules == {DisplayRule("absent", <<>>), DisplayRule("throws", <<>>), DisplayRule("undefined", <<>>),
                 DisplayRule("string", <<>>), DisplayRule("string", <<"x">>)}

\* formatted of standard mode before the displayRule
defaultFormatted(st, cfg) ==
    LET replaced == IF cfg.decimalSeparator = "." THEN st.value ELSE ReplaceFirst(st.value, ".", <<cfg.decimalSeparator>>)
    IN IF cfg.allowDecimal.isNum /\ cfg.allowDecimal.val > 0
       THEN padDecimalPlaces(replaced, cfg.allowDecimal.val, cfg.decimalSeparator)
       ELSE replaced

\* formatDisplayValue that shows nothing when the displayRule threw
formatDisplayValue_ThrowBlanks(st, cfg, displayRule) ==
    LET raw == st.value
        maskFormat == parseMask(Get(cfg.mask))
    IN IF IsSome(cfg.mask) /\ IsSome(st.maskState) /\ ~maskFormat.throws
       THEN [raw |-> raw,
             formatted |-> formatMaskValue(Get(st.maskState), maskFormat),
             numeric |-> IF maskFormat.type = "decimal" THEN toNumber(ReplaceFirst(raw, ",", <<".">>))
                         ELSE IF maskFormat.type = "simple" THEN toNumber(raw)
                         ELSE None]
       ELSE [raw |-> raw,
             formatted |-> IF displayRule.kind = "string" THEN displayRule.text
                           ELSE IF displayRule.kind = "throws" THEN <<>>
                           ELSE defaultFormatted(st, cfg),
             numeric |-> toNumber(st.value)]

formatDisplayValue(st, cfg, displayRule) ==
    LET raw == st.value
        maskFormat == parseMask(Get(cfg.mask))
    IN IF IsSome(cfg.mask) /\ IsSome(st.maskState) /\ ~maskFormat.throws
       THEN [raw |-> raw,
             formatted |-> formatMaskValue(Get(st.maskState), maskFormat),
             numeric |-> IF maskFormat.type = "decimal" THEN toNumber(ReplaceFirst(raw, ",", <<".">>))
                         ELSE IF maskFormat.type = "simple" THEN toNumber(raw)
                         ELSE None]
       ELSE [raw |-> raw,
             formatted |-> IF displayRule.kind = "string" THEN displayRule.text
                           ELSE defaultFormatted(st, cfg),
             numeric |-> toNumber(st.value)]

(***************************************************************************)
(* The configurations and inputs of the model                              *)
(***************************************************************************)
InitialValues == Strings(InputChars, MaxInitLen)

SetValues == Strings(InputChars, MaxSetLen)

\* standard mode: every combination of the options that steer the value transforms
StandardConfigs == {[DEFAULT_CONFIG EXCEPT !.allowDecimal = ad, !.allowNegative = an, !.maxDigits = md, !.decimalSeparator = ds] :
                        ad \in {AllowDecimalBool(FALSE), AllowDecimalBool(TRUE), AllowDecimalNum(1)}, an \in BOOLEAN, md \in {None, Some(1), Some(2)}, ds \in {".", ","}}

\* the value and digit-count constraints (some pairs have minValue above maxValue)
Constraints == [minValue : {None, Some(5), Some(20)}, maxValue : {None, Some(10)}, minDigits : {None, Some(2)}, maxDigits : {None, Some(1)}]

Constraint(lo, hi, nd, md) == [minValue |-> lo, maxValue |-> hi, minDigits |-> nd, maxDigits |-> md]

WithConstraints(cfg, c) == [cfg EXCEPT !.minValue = c.minValue, !.maxValue = c.maxValue, !.minDigits = c.minDigits, !.maxDigits = c.maxDigits]

\* standard mode with every combination of the constraints
ConstraintConfigs == {WithConstraints(DEFAULT_CONFIG, c) : c \in Constraints}

\* a simple, a decimal and a fraction mask
SimpleMask == <<"_", "_">>
DecimalMask == <<"_", ",", "_">>
FractionMask == <<"_", "/", "_">>

WithMask(m, c) == WithConstraints([DEFAULT_CONFIG EXCEPT !.mask = Some(m)], c)

\* mask mode, with and without constraints
MaskConfigs == {WithMask(SimpleMask, c) : c \in {Constraint(None, None, None, None), Constraint(None, None, Some(2), Some(1)), Constraint(None, Some(10), Some(2), Some(1)), Constraint(Some(5), Some(10), Some(2), Some(1))}}
               \cup {WithMask(DecimalMask, Constraint(Some(5), Some(10), Some(2), Some(1))), WithMask(FractionMask, Constraint(None, None, None, None))}

\* both modes: the mask configurations, and standard mode with and without constraints
BothModeConfigs == MaskConfigs
                   \cup {DEFAULT_CONFIG, WithConstraints(DEFAULT_CONFIG, Constraint(Some(5), Some(10), Some(2), Some(1))),
                         WithConstraints([DEFAULT_CONFIG EXCEPT !.allowDecimal = AllowDecimalNum(1), !.decimalSeparator = ","], Constraint(None, Some(10), Some(2), None))}

\* maxDigits set, the other options free
MaxDigitsConfigs == {c \in StandardConfigs : IsSome(c.maxDigits)}

\* allowDecimal a number, the other options free
DecimalCapConfigs == {[DEFAULT_CONFIG EXCEPT !.allowDecimal = AllowDecimalNum(n), !.allowNegative = an, !.maxDigits = md, !.decimalSeparator = ds] :
                        n \in 0..2, an \in BOOLEAN, md \in {None, Some(2)}, ds \in {".", ","}}

(***************************************************************************)
(* The state machine: a caller holding the state and threading it through  *)
(* reduceNumpad with a fixed configuration                                 *)
(***************************************************************************)
\* the caller has made no call on the state it holds
NoCall == [call |-> "none", arg |-> <<>>, result |-> <<>>]

\* the engines used without the DOM shell
NoDom == [options |-> [onChange |-> FALSE, onSubmit |-> FALSE], display |-> [raw |-> <<>>, formatted |-> <<>>, numeric |-> <<>>],
          disabled |-> {}, event |-> [kind |-> "none", key |-> ""], announced |-> <<>>, calls |-> <<>>]

InitWith(configs, inputs) == /\ config \in configs
                             /\ dom = NoDom
                             /\ \E initialValue \in inputs : state = createNumpadState(initialValue, config)
                             /\ dispatched = "none"
                             /\ returned = NoCall
                             /\ previous = <<>>

Dispatch(action) == /\ state' = reduceNumpad(state, action, config)
                    /\ dispatched' = action.type
                    /\ previous' = IF action.type \in {"clear", "set"} THEN <<>> ELSE state.value
                    /\ returned' = NoCall
                    /\ UNCHANGED <<config, dom>>

\* digit, decimal and toggle-sign can lengthen value without limit: the model
\* takes such a step only while the lengthened value fits the limit
GrowTo(action, maxLen) == /\ Dispatch(action)
                          /\ Len(state'.value) > Len(state.value) => Len(state'.value) <= maxLen

Grow(action) == GrowTo(action, MaxValueLen)

Digit == \E d \in Digits : Grow([type |-> "digit", digit |-> d])

Decimal == Grow([type |-> "decimal"])

Delete == Dispatch([type |-> "delete"])

Clear == Dispatch([type |-> "clear"])

ToggleSign == Grow([type |-> "toggle-sign"])

SetValue == \E v \in SetValues : Dispatch([type |-> "set", value |-> v])

Submit == Dispatch([type |-> "submit"])

\* an action whose type the reducer does not know
Unknown == Dispatch([type |-> "unknown"])

Next == Digit \/ Decimal \/ Delete \/ Clear \/ ToggleSign \/ SetValue \/ Submit \/ Unknown

Init == InitWith(BothModeConfigs, InitialValues)

Spec == Init /\ [][Next]_vars

\* standard mode, every combination of the options that steer the value transforms
InitStandard == InitWith(StandardConfigs, InitialValues)

SpecStandard == InitStandard /\ [][Next]_vars

\* standard mode, every combination of the constraints
InitConstraints == InitWith(ConstraintConfigs, InitialValues)

SpecConstraints == InitConstraints /\ [][Next]_vars

\* maxDigits set, digit actions only
InitDigits == InitWith(MaxDigitsConfigs, InitialValues)

SpecDigits == InitDigits /\ [][Digit]_vars

\* standard mode with maxDigits from absent to 2, digit actions only
LeadingZeroConfigs == StandardConfigs \cup {[c EXCEPT !.maxDigits = Some(0)] : c \in StandardConfigs}

InitLeadingZero == InitWith(LeadingZeroConfigs, InitialValues)

SpecLeadingZero == InitLeadingZero /\ [][Digit]_vars

\* standard mode without constraints, allowDecimal false, true, 0 and 1
KeyConfigs == {[DEFAULT_CONFIG EXCEPT !.allowDecimal = ad, !.allowNegative = an, !.decimalSeparator = ds] :
                  ad \in {AllowDecimalBool(FALSE), AllowDecimalBool(TRUE), AllowDecimalNum(0), AllowDecimalNum(1)}, an \in BOOLEAN, ds \in {".", ","}}

InitKeys == InitWith(KeyConfigs, InitialValues)

\* the keys that are not digits
NextKeys == Decimal \/ Delete \/ ToggleSign

SpecKeys == InitKeys /\ [][NextKeys]_vars

\* masks of every kind: simple, simple with prefix, thousands mark and suffix,
\* decimal, fraction, and decimal over fraction
Masks == {<<"_", "_">>, <<"-", "_", ".", "_", " ">>, <<"_", ",", "_", "_">>, <<"_", "_", "/", "_">>, <<"_", ",", "_", "/", "_">>}

\* mask mode without constraints
MaskModeConfigs == {[DEFAULT_CONFIG EXCEPT !.mask = Some(m)] : m \in Masks}

InitMask == InitWith(MaskModeConfigs, InitialValues)

\* a digit in mask mode, where the mask limits the length of value
MaskDigit == \E d \in Digits : Dispatch([type |-> "digit", digit |-> d])

\* the actions that have a handler in mask mode
NextMask == MaskDigit \/ Delete \/ Clear \/ SetValue

SpecMask == InitMask /\ [][NextMask]_vars

\* mask mode from the empty mask under the actions that enter and remove digits
InitMaskFill == InitWith(MaskModeConfigs, {<<>>})

NextMaskFill == MaskDigit \/ Delete \/ Clear

SpecMaskFill == InitMaskFill /\ [][NextMaskFill]_vars

\* mask mode with the decimal and sign keys allowed by the configuration
MaskKeyConfigs == {[DEFAULT_CONFIG EXCEPT !.mask = Some(m), !.allowNegative = an, !.minValue = mv] :
                      m \in Masks, an \in BOOLEAN, mv \in {None, Some(1)}}

InitMaskKeys == InitWith(MaskKeyConfigs, SetValues)

\* digits and the two keys that have no handler in mask mode
NextMaskKeys == MaskDigit \/ Decimal \/ ToggleSign

SpecMaskKeys == InitMaskKeys /\ [][NextMaskKeys]_vars

\* allowDecimal a number, from the empty state, without set
InitDecimalCap == InitWith(DecimalCapConfigs, {<<>>})

EditDigit == \E d \in Digits : GrowTo([type |-> "digit", digit |-> d], MaxEditLen)

EditDecimal == GrowTo([type |-> "decimal"], MaxEditLen)

EditToggleSign == GrowTo([type |-> "toggle-sign"], MaxEditLen)

NextEdit == EditDigit \/ EditDecimal \/ Delete \/ Clear \/ EditToggleSign

SpecDecimalCap == InitDecimalCap /\ [][NextEdit]_vars

\* the caller parses the mask of its configuration
ParseMask == /\ IsSome(config.mask)
             /\ returned' = [call |-> "parseMask", arg |-> Get(config.mask), result |-> parseMask(Get(config.mask))]
             /\ UNCHANGED <<config, state, dispatched, previous, dom>>

\* the keys of the keyboard handler: a digit, the marks, the sign, the named
\* keys and a key that maps to nothing
Keys == {"0", "1", "9", ".", ",", "-", "Backspace", "Delete", "Enter", "a"}

\* the caller maps a key to an action
MapKey == \E key \in Keys, keyValidator \in KeyValidators :
              /\ returned' = [call |-> "mapKeyToAction", arg |-> [key |-> key, keyValidator |-> keyValidator],
                              result |-> mapKeyToAction(key, config, state.value, keyValidator)]
              /\ UNCHANGED <<config, state, dispatched, previous, dom>>

\* the caller formats the state it holds for display
FormatDisplay == \E displayRule \in DisplayRules :
              /\ returned' = [call |-> "formatDisplayValue", arg |-> displayRule, result |-> formatDisplayValue(state, config, displayRule)]
              /\ UNCHANGED <<config, state, dispatched, previous, dom>>

\* every mask string up to the bound, well-formed or not
MaskStrings == Strings(MaskChars, MaxMaskLen)

MaskStringConfigs == {[DEFAULT_CONFIG EXCEPT !.mask = Some(m)] : m \in MaskStrings}

InitParse == InitWith(MaskStringConfigs, {<<>>, <<"1">>})

NextParse == ParseMask \/ Clear

SpecParse == InitParse /\ [][NextParse]_vars

\* masks that parseMask rejects: no slot, a side without a slot, a decimal
\* denominator under a plain numerator
MalformedMasks == {<<"x">>, <<"_", "/">>, <<"_", "/", "_", ",", "_">>}

\* the caller goes on with a configuration whose mask is malformed
Remask == \E m \in MalformedMasks :
              /\ ~parseMask(Get(config.mask)).throws
              /\ config' = [config EXCEPT !.mask = Some(m)]
              /\ returned' = NoCall
              /\ UNCHANGED <<state, dispatched, previous, dom>>

\* a simple and a decimal mask under a maxValue
RemaskConfigs == {WithMask(m, Constraint(None, Some(10), None, None)) : m \in {SimpleMask, DecimalMask}}

InitRemask == InitWith(RemaskConfigs, {<<>>})

NextRemask == MaskDigit \/ Decimal \/ Delete \/ Clear \/ ToggleSign \/ SetValue \/ Submit \/ Unknown \/ Remask

SpecRemask == InitRemask /\ [][NextRemask]_vars

(***************************************************************************)
(* numpad-dom.ts: createNumpadDom, the shell that holds the state, threads *)
(* it through dispatch and calls the callbacks of its options.  The        *)
(* predicates canToggleSign and canAddDigit of validation.utils.ts are     *)
(* taken as arbitrary: each call may answer either way.                    *)
(***************************************************************************)

\* the keys of the keypad, each with its label and its action
buildKeys(cfg) ==
    {[label |-> DigitStr(d), action |-> [type |-> "digit", digit |-> d]] : d \in Digits}
        \cup {[label |-> l, action |-> [type |-> l]] : l \in {"delete", "clear", "submit", "toggle-sign", "decimal"}}

\* action.startsWith("digit:"), on the values a dataset action can take
startsWithDigitColon(action) == action \in {"digit:0", "digit:1", "digit:2", "digit:3", "digit:4", "digit:5", "digit:6", "digit:7", "digit:8", "digit:9"}

\* the labels of the buttons updateButtonStates disables, by the dataset action
\* each button was given (its action type): one outcome for each way
\* canToggleSign and canAddDigit can answer
updateButtonStates(keys, st, cfg) ==
    LET isDisabled(key, canToggleSign, canAddDigit) ==
            LET action == key.action.type
                maskFormat == parseMask(Get(cfg.mask))
                byMask == IF HasMask(cfg) /\ IsSome(st.maskState)
                          THEN IF maskFormat.throws THEN FALSE ELSE isMaskComplete(Get(st.maskState), maskFormat)
                          ELSE FALSE
            IN IF action = "toggle-sign" THEN ~canToggleSign
               ELSE IF action = "decimal" THEN ~Truthy(cfg.allowDecimal)
               ELSE IF startsWithDigitColon(action) THEN byMask \/ ~canAddDigit
               ELSE FALSE
    IN {{key.label : key \in {k \in keys : isDisabled(k, canToggleSign, canAddDigit)}} :
           canToggleSign \in BOOLEAN, canAddDigit \in BOOLEAN}

\* dispatch calls onChange on every change, whatever sync is
callsOnChange_WithoutSync(action, changed, cfg, options) == changed /\ options.onChange

\* dispatch calls onChange
callsOnChange(action, changed, cfg, options) ==
    IF cfg.sync /\ changed /\ options.onChange THEN TRUE
    ELSE ~cfg.sync /\ action.type = "submit" /\ changed /\ options.onChange

\* dispatch calls onSubmit for every action
callsOnSubmit_EveryAction(action, options) == options.onSubmit

\* dispatch calls onSubmit
callsOnSubmit(action, options) == action.type = "submit" /\ options.onSubmit

\* the shell after dispatch(action), where nextState is what reduceNumpad
\* returned, displayValue what formatDisplayValue returned for it and disabled
\* what updateButtonStates has set; each callback is called with the next state
\* and its display value while the shell already holds that state
dispatch(st, nextState, displayValue, disabled, action, cfg, options) ==
    LET changed == nextState.value # st.value \/ action.type = "submit"
        call(callback) == [callback |-> callback, state |-> nextState, display |-> displayValue, held |-> nextState]
    IN [options |-> options,
        display |-> displayValue,
        disabled |-> disabled,
        event |-> [kind |-> "dispatch", key |-> ""],
        announced |-> IF changed THEN Some(action.type) ELSE None,
        calls |-> (IF callsOnChange(action, changed, cfg, options) THEN <<call("onChange")>> ELSE <<>>)
                     \o (IF callsOnSubmit(action, options) THEN <<call("onSubmit")>> ELSE <<>>)]

\* the shell after construction: the display and the buttons are brought up to
\* date with the initial state
createNumpadDom(st, cfg, options) ==
    {[options |-> options,
      display |-> formatDisplayValue(st, cfg, DisplayRule("absent", <<>>)),
      disabled |-> disabled,
      event |-> [kind |-> "none", key |-> ""],
      announced |-> None,
      calls |-> <<>>] : disabled \in updateButtonStates(buildKeys(cfg), st, cfg)}

\* an event that reaches dispatch
Dispatches(action, event) ==
    /\ state' = reduceNumpad(state, action, config)
    /\ \E disabled \in updateButtonStates(buildKeys(config), state', config) :
           dom' = [dispatch(state, state', formatDisplayValue(state', config, DisplayRule("absent", <<>>)), disabled, action, config, dom.options)
                      EXCEPT !.event = event]
    /\ dispatched' = action.type
    /\ previous' = IF action.type \in {"clear", "set"} THEN <<>> ELSE state.value
    /\ UNCHANGED <<config, returned>>

\* an event that ends before dispatch
Ignored(event) ==
    /\ dom' = [dom EXCEPT !.event = event, !.announced = None, !.calls = <<>>]
    /\ dispatched' = "none"
    /\ UNCHANGED <<config, state, previous, returned>>

\* the events of the shell: the caller dispatches an action through the
\* instance, a button of the keypad is clicked, a key is pressed while the
\* keypad has the focus
Events ==
    {[kind |-> "dispatch", action |-> a] :
        a \in {[type |-> "digit", digit |-> d] : d \in Digits}
                \cup {[type |-> t] : t \in {"decimal", "delete", "clear", "toggle-sign", "submit"}}
                \cup {[type |-> "set", value |-> v] : v \in {<<>>, <<"1", "0">>}}}
        \cup {[kind |-> "click", button |-> key] : key \in buildKeys(config)}
        \cup {[kind |-> "keydown", key |-> key] : key \in Keys}

\* the action the click listener of a button dispatches, None when the button is
\* disabled
click(key) == IF key.label \notin dom.disabled THEN Some(key.action) ELSE None

\* the action handleKeydown dispatches, None when the key maps to nothing
handleKeydown(key) == mapKeyToAction(key, config, state.value, "absent")

\* an event is handled: its handler dispatches an action or returns before
Event ==
    \E e \in Events :
        \E action \in {IF e.kind = "dispatch" THEN Some(e.action) ELSE IF e.kind = "click" THEN click(e.button) ELSE handleKeydown(e.key)} :
            LET event == [kind |-> e.kind, key |-> IF e.kind = "click" THEN e.button.label ELSE ""]
            IN IF IsSome(action) THEN Dispatches(Get(action), event) ELSE Ignored(event)

\* sync off and on, in standard mode under a digit limit and in mask mode
\* without the decimal key
DomConfigs == {[c EXCEPT !.sync = sync] :
                  c \in {[DEFAULT_CONFIG EXCEPT !.maxDigits = Some(1)],
                         [DEFAULT_CONFIG EXCEPT !.mask = Some(SimpleMask), !.allowDecimal = AllowDecimalBool(FALSE)]},
                  sync \in BOOLEAN}

InitDom == /\ config \in DomConfigs
           /\ \E initialValue \in {<<>>, <<"1", "1">>}, options \in [onChange : BOOLEAN, onSubmit : BOOLEAN] :
                  /\ state = createNumpadState(initialValue, config)
                  /\ dom \in createNumpadDom(state, config, options)
           /\ dispatched = "none"
           /\ returned = NoCall
           /\ previous = <<>>

SpecDom == InitDom /\ [][Event]_vars

\* every gate of the key map: allowDecimal falsy and truthy, as a boolean and as
\* a number, allowNegative, and both marks
KeymapConfigs == {[DEFAULT_CONFIG EXCEPT !.allowDecimal = ad, !.allowNegative = an, !.decimalSeparator = ds] :
                     ad \in {AllowDecimalBool(FALSE), AllowDecimalBool(TRUE), AllowDecimalNum(0), AllowDecimalNum(2)},
                     an \in BOOLEAN, ds \in {".", ","}}

InitKeymap == InitWith(KeymapConfigs, {<<>>, <<"1">>})

SpecKeymap == InitKeymap /\ [][MapKey]_vars

\* standard mode with and without padding, and a mask of each type under a range
FormatConfigs == {[DEFAULT_CONFIG EXCEPT !.allowDecimal = ad, !.decimalSeparator = ds] :
                     ad \in {AllowDecimalBool(TRUE), AllowDecimalNum(1), AllowDecimalNum(2)}, ds \in {".", ","}}
                 \cup {WithMask(m, Constraint(Some(5), Some(10), None, None)) : m \in {SimpleMask, DecimalMask, FractionMask}}

InitFormat == InitWith(FormatConfigs, InitialValues)

NextFormat == FormatDisplay \/ MapKey \/ Digit \/ Delete

SpecFormat == InitFormat /\ [][NextFormat]_vars

(***************************************************************************)
(* Properties                                                              *)
(***************************************************************************)
\* the digits after the "." of a value ("" when there is no ".")
FractionOf(value) == SplitRest(value, ".")

\* C1: in standard mode, in every reachable state value has at most one "-",
\* which is then its first character, and at most one ".".
C1_SignFirstOneSeparator ==
    /\ Count(state.value, "-") <= 1
    /\ Count(state.value, "-") = 1 => state.value[1] = "-"
    /\ Count(state.value, ".") <= 1

\* a signed value with a separator, produced by toggle-sign
C1_Witness == state.lastAction = "toggle-sign" /\ StartsWith(state.value, <<"-">>) /\ Includes(state.value, ".")

\* C2: under maxDigits = N, after digit actions on a state made by
\* createNumpadState, value never has more than N digits, and a digit typed
\* into a value that has N digits leaves value as it is.
C2_DigitsWithinMaxDigits ==
    [][IsSome(config.maxDigits) =>
          /\ CountDigits(state'.value) <= Get(config.maxDigits)
          /\ CountDigits(state.value) = Get(config.maxDigits) => state'.value = state.value]_vars

\* C3: sanitizeValue is idempotent: a value that createNumpadState or set has
\* sanitized is left as it is by sanitizing it again.
C3_SanitizeIdempotent ==
    state.lastAction \in {"undefined", "set"} => sanitizeValue(state.value, config) = state.value

\* C4: after a set action under maxDigits = N, value has at most N digits.
C4_SetWithinMaxDigits ==
    (state.lastAction = "set" /\ IsSome(config.maxDigits)) => CountDigits(state.value) <= Get(config.maxDigits)

\* C5: in every reachable state, standard or mask mode, validationError is the
\* result of validating the current value against the configuration.
C5_ValidationErrorOfValue == state.validationError = validateValue(state.value, config)

\* deleting a digit has turned one error into another
C5_Witness == state.lastAction = "delete" /\ state.validationError = "minValue" /\ IsSome(config.maxValue)

\* C6: whenever value is "" or the lone "-", validationError is null, whatever
\* constraints are configured.
C6_MidEntryValid == state.value \in {<<>>, <<"-">>} => state.validationError = NoError

\* the lone sign, typed under a configuration with every constraint set
C6_Witness == /\ state.value = <<"-">> /\ state.lastAction = "toggle-sign"
              /\ IsSome(config.minValue) /\ IsSome(config.maxValue) /\ IsSome(config.minDigits) /\ IsSome(config.maxDigits)

\* the error the precedence rule of C7 demands for a value that parses to a number
PrecedenceError(value, cfg) ==
    LET numeric == Get(toNumber(value))
    IN IF IsSome(cfg.minValue) /\ NumLess(numeric, Get(cfg.minValue)) THEN "minValue"
       ELSE IF IsSome(cfg.maxValue) /\ NumGreater(numeric, Get(cfg.maxValue)) THEN "maxValue"
       ELSE IF IsSome(cfg.minDigits) /\ CountDigits(value) < Get(cfg.minDigits) THEN "minDigits"
       ELSE IF IsSome(cfg.maxDigits) /\ CountDigits(value) > Get(cfg.maxDigits) THEN "maxDigits"
       ELSE NoError

\* C7: for a non-empty value that parses to a number the error is minValue,
\* else maxValue, else minDigits, else maxDigits, else null, with the digit
\* count taken over the digits of value.
C7_ValidationPrecedence ==
    (state.value # <<>> /\ IsSome(toNumber(state.value))) => state.validationError = PrecedenceError(state.value, config)

\* C8: every transition sets isPristine to false and lastAction to the type of
\* the action; submit and an unknown action leave value, validationError and
\* maskState as they were.
C8_TransitionFrame ==
    [][/\ state'.isPristine = FALSE
       /\ state'.lastAction = dispatched'
       /\ dispatched' \in {"submit", "unknown"} => /\ state'.value = state.value
                                                  /\ state'.validationError = state.validationError
                                                  /\ state'.maskState = state.maskState]_vars

\* a submit in mask mode with digits entered and an error standing
C8_Witness == state.lastAction = "submit" /\ IsSome(state.maskState) /\ state.validationError # NoError

\* what C9 says of typing digit d into the current value
LeadingZeroRule(d) ==
    /\ (d # 0 /\ state.value = <<"0">>) => state'.value = <<DigitStr(d)>>
    /\ (d # 0 /\ state.value = <<"-", "0">>) => state'.value = <<"-", DigitStr(d)>>
    /\ (d = 0 /\ state.value \in {<<>>, <<"0">>}) => state'.value = <<"0">>

\* C9 as stated: a non-zero digit d typed into "0" gives d (and into "-0" gives
\* "-d"), and 0 typed into "" or "0" gives "0", under every configuration,
\* every maxDigits included.
C9_LeadingZeroReplaced ==
    [][\A d \in Digits : state' = reduceNumpad(state, [type |-> "digit", digit |-> d], config) => LeadingZeroRule(d)]_vars

\* maxDigits does not reject a digit typed into the current value
DigitFits == ~IsSome(config.maxDigits) \/ CountDigits(state.value) < Get(config.maxDigits)

\* C9 amended: the same, for a digit that maxDigits does not reject (maxDigits
\* absent or above the number of digits value already has).
C9_LeadingZeroReplacedWhenDigitFits ==
    [][\A d \in Digits : (DigitFits /\ state' = reduceNumpad(state, [type |-> "digit", digit |-> d], config)) => LeadingZeroRule(d)]_vars

\* a non-zero digit has replaced the zero of "-0" under a maxDigits that is set
C9_Witness == /\ state.lastAction = "digit" /\ previous = <<"-", "0">> /\ state.value = <<"-", "1">>
              /\ IsSome(config.maxDigits)

\* C10: with allowDecimal a number N, from the empty state and without set,
\* value never has more than N digits after the "."; a digit typed into a value
\* that has N digits after its "." leaves value as it is.
C10_DecimalPlacesCapped ==
    [][/\ Len(FractionOf(state'.value)) <= config.allowDecimal.val
       /\ (dispatched' = "digit" /\ Includes(state.value, ".") /\ Len(FractionOf(state.value)) = config.allowDecimal.val) => state'.value = state.value]_vars

\* a digit typed at the cap, where maxDigits is absent, has left value as it was
C10_Witness == /\ state.lastAction = "digit" /\ previous = state.value /\ Includes(state.value, ".")
               /\ config.allowDecimal.val >= 1 /\ Len(FractionOf(state.value)) = config.allowDecimal.val
               /\ ~IsSome(config.maxDigits)

\* C11: the decimal action leaves value as it is when allowDecimal is falsy or
\* value holds a "."; otherwise it appends "." to value, after a "0" when the
\* unsigned part is empty ("" becomes "0." and "-" becomes "-0.").
C11_DecimalAppendsMark ==
    [][dispatched' = "decimal" =>
          state'.value = IF ~Truthy(config.allowDecimal) \/ Includes(state.value, ".") THEN state.value
                         ELSE IF state.value \in {<<>>, <<"-">>} THEN state.value \o <<"0", ".">>
                         ELSE state.value \o <<".">>]_vars

\* the mark typed after the lone sign
C11_Witness == state.lastAction = "decimal" /\ previous = <<"-">> /\ state.value = <<"-", "0", ".">>

\* C12: in standard mode delete removes the last character of value, a result
\* of "-" becomes "", the empty value stays empty, and so value after delete is
\* never the lone "-".
C12_DeleteDropsLast ==
    [][dispatched' = "delete" =>
          /\ state'.value = IF state.value = <<>> THEN <<>>
                            ELSE IF Len(state.value) = 2 /\ state.value[1] = "-" THEN <<>>
                            ELSE SubSeq(state.value, 1, Len(state.value) - 1)
          /\ state'.value # <<"-">>]_vars

\* delete has taken the digit of "-1" and the sign with it
C12_Witness == state.lastAction = "delete" /\ previous = <<"-", "1">> /\ state.value = <<>>

\* the value after two toggle-sign actions on the current state
ToggledTwice ==
    LET once == reduceNumpad(state, [type |-> "toggle-sign"], config)
    IN reduceNumpad(once, [type |-> "toggle-sign"], config).value

\* C13: with allowNegative true and no value constraints, two toggle-sign
\* actions return every reachable value of standard mode, "" and "-" included,
\* to itself.
C13_ToggleSignRoundTrip == config.allowNegative => ToggledTwice = state.value

\* toggle-sign has turned the lone sign into the empty value
C13_Witness == state.lastAction = "toggle-sign" /\ previous = <<"-">> /\ state.value = <<>>

\* C14: in both modes a clear action gives the value, validationError and
\* maskState of createNumpadState("", config): in standard mode value is "", in
\* mask mode every segment is "" and activeSegment is the first segment.
C14_ClearResets ==
    [][dispatched' = "clear" =>
          LET fresh == createNumpadState(<<>>, config)
          IN /\ state'.value = fresh.value
             /\ state'.validationError = fresh.validationError
             /\ state'.maskState = fresh.maskState
             /\ ~IsSome(state.maskState) => state'.value = <<>>
             /\ IsSome(state.maskState) =>
                    /\ \A t \in DOMAIN Get(state'.maskState).segments : Get(state'.maskState).segments[t] = <<>>
                    /\ Get(state'.maskState).activeSegment = parseMask(Get(config.mask)).segments[1].type]_vars

\* a cleared decimal mask under a configuration with constraints
C14_Witness == /\ state.lastAction = "clear" /\ IsSome(state.maskState) /\ state.value = <<",">>
               /\ IsSome(config.minValue)

\* C16: in mask mode value is getMaskRawValue of maskState in every reachable
\* state: the segments joined by "/" or ",", or the integer segment alone,
\* without prefix and suffix.
C16_ValueIsMaskRawValue ==
    IsSome(state.maskState) =>
        LET format == parseMask(Get(config.mask))
            segments == Get(state.maskState).segments
        IN /\ state.value = getMaskRawValue(Get(state.maskState), format)
           /\ state.value = IF format.type = "fraction" THEN segments["numerator"] \o <<"/">> \o segments["denominator"]
                             ELSE IF format.type = "decimal" THEN segments["integer"] \o <<",">> \o segments["fractional"]
                             ELSE segments["integer"]

\* a digit typed into the second segment of a fraction mask
C16_Witness == /\ state.lastAction = "digit" /\ IsSome(state.maskState)
               /\ previous = <<"1", "/">> /\ state.value = <<"1", "/", "0">>

\* the mask format and the mask edit state of the current state (mask mode)
Format == parseMask(Get(config.mask))

MaskState == Get(state.maskState)

\* the segment of the format at index i is full in mask state ms
SegmentFull(ms, i) == Len(ms.segments[Format.segments[i].type]) = Format.segments[i].length

\* C15: in every mask state reachable from createMaskState (with or without an
\* initial value) by append, delete, clear and set, no segment's string is
\* longer than the segment's length, and activeSegment names a segment of the
\* format.
C15_MaskStateWithinFormat ==
    /\ \A i \in 1..Len(Format.segments) : Len(MaskState.segments[Format.segments[i].type]) <= Format.segments[i].length
    /\ \E i \in 1..Len(Format.segments) : Format.segments[i].type = MaskState.activeSegment

\* a set value has filled the only segment to its length
C15_Witness == state.lastAction = "set" /\ Format.type = "simple" /\ Format.prefix = <<>> /\ SegmentFull(MaskState, 1)

\* C19: isMaskComplete is true exactly when getMaskFilledLength is totalSlots
\* and every segment is as long as its declared length.
C19_CompleteIffAllFull ==
    isMaskComplete(MaskState, Format) <=>
        /\ getMaskFilledLength(MaskState) = Format.totalSlots
        /\ \A i \in 1..Len(Format.segments) : SegmentFull(MaskState, i)

\* the last digit has completed a mask of two segments
C19_Witness == /\ state.lastAction = "digit" /\ Len(Format.segments) = 2 /\ isMaskComplete(MaskState, Format)
               /\ Len(previous) < Len(state.value)

\* the index in the format of the active segment of mask state ms
ActiveIndex(ms) == CHOOSE i \in 1..Len(Format.segments) : Format.segments[i].type = ms.activeSegment

\* C17: a digit goes to the active segment when that has room; else to the next
\* segment, which becomes the active one, when there is one and it has room;
\* else the mask state stays as it is.  In reachable states the append does
\* nothing exactly when the mask is complete.
C17_AppendFillsOrAdvances ==
    [][\A d \in Digits : (dispatched' = "digit" /\ state' = reduceNumpad(state, [type |-> "digit", digit |-> d], config)) =>
          LET ms == MaskState
              after == Get(state'.maskState)
              i == ActiveIndex(ms)
              active == ms.activeSegment
              next == Format.segments[i + 1].type
          IN /\ IF ~SegmentFull(ms, i)
                THEN /\ after.activeSegment = active
                     /\ after.segments = [ms.segments EXCEPT ![active] = @ \o <<DigitStr(d)>>]
                ELSE IF i < Len(Format.segments) /\ ~SegmentFull(ms, i + 1)
                THEN /\ after.activeSegment = next
                     /\ after.segments = [ms.segments EXCEPT ![next] = @ \o <<DigitStr(d)>>]
                ELSE after = ms
             /\ after = ms <=> \A j \in 1..Len(Format.segments) : SegmentFull(ms, j)]_vars

\* a digit has become the first character of the second segment, the first
\* segment being full
C17_Witness == /\ state.lastAction = "digit" /\ Len(Format.segments) = 2 /\ ActiveIndex(MaskState) = 2
               /\ Len(state.value) = Len(previous) + 1 /\ Len(MaskState.segments[MaskState.activeSegment]) = 1

\* C18: delete drops the last character of the active segment when that is not
\* empty; else that of the previous segment, which becomes the active one, when
\* there is one; else the mask state stays as it is.  No other segment changes.
C18_DeleteDropsOrRetreats ==
    [][dispatched' = "delete" =>
          LET ms == MaskState
              after == Get(state'.maskState)
              i == ActiveIndex(ms)
              active == ms.activeSegment
              prev == Format.segments[i - 1].type
          IN IF ms.segments[active] # <<>>
             THEN /\ after.activeSegment = active
                  /\ after.segments = [ms.segments EXCEPT ![active] = SubSeq(@, 1, Len(@) - 1)]
             ELSE IF i > 1
             THEN /\ after.activeSegment = prev
                  /\ after.segments = [ms.segments EXCEPT ![prev] = SubSeq(@, 1, Len(@) - 1)]
             ELSE after = ms]_vars

\* delete in the empty second segment has gone back and taken a character of the first
C18_Witness == /\ state.lastAction = "delete" /\ Len(Format.segments) = 2 /\ ActiveIndex(MaskState) = 1
               /\ Format.type = "decimal" /\ previous = <<"1", ",">> /\ state.value = <<",">>

\* C20 as stated: appending a digit and then deleting gives every segment the
\* string it had, whenever activeSegment is the same before and after the
\* append.
C20_AppendDeleteInverse ==
    \A d \in Digits :
        LET appended == appendDigitToMask(MaskState, d, Format)
        IN appended.activeSegment = MaskState.activeSegment =>
               deleteCharFromMask(appended, Format).segments = MaskState.segments

\* C20 amended: the same, whenever the append has changed the mask state (the
\* mask was not full) and activeSegment is the same before and after it.
C20_AppendDeleteInverseWhenAppended ==
    \A d \in Digits :
        LET appended == appendDigitToMask(MaskState, d, Format)
        IN (appended # MaskState /\ appended.activeSegment = MaskState.activeSegment) =>
               deleteCharFromMask(appended, Format).segments = MaskState.segments

\* delete has undone a digit in the second segment of a decimal mask
C20_Witness == /\ state.lastAction = "delete" /\ Format.type = "decimal" /\ ActiveIndex(MaskState) = 2
               /\ previous = <<"1", ",", "1", "0">> /\ state.value = <<"1", ",", "1">>

\* C21: in mask mode the decimal and toggle-sign actions leave value, maskState
\* and validationError as they were, in every reachable state.
C21_MaskIgnoresDecimalAndSign ==
    [][(IsSome(state.maskState) /\ dispatched' \in {"decimal", "toggle-sign"}) =>
          /\ state'.value = state.value
          /\ state'.maskState = state.maskState
          /\ state'.validationError = state.validationError]_vars

\* toggle-sign on a mask that holds digits
C21_Witness == /\ state.lastAction = "toggle-sign" /\ IsSome(state.maskState)
               /\ previous = <<"1", "0">> /\ config.allowNegative
               /\ state.validationError = NoError

\* the caller has parsed its mask and parseMask returned a format
Parsed == returned.call = "parseMask" /\ ~returned.result.throws

\* the caller has parsed its mask and parseMask threw
ParseThrew == returned.call = "parseMask" /\ returned.result.throws

\* r is a run of slots: slots with single thousands marks between them
IsRun(r) == /\ Len(r) > 0 /\ r[1] = "_" /\ r[Len(r)] = "_"
            /\ \A i \in 1..Len(r) : r[i] \in {"_", "."}
            /\ \A i \in 1..(Len(r) - 1) : ~(r[i] = "." /\ r[i + 1] = ".")

\* the run of a side of a mask: the longest run that starts at its first slot
RunOf(side) ==
    IF ~Includes(side, "_") THEN <<>>
    ELSE LET from == SliceFrom(side, IndexOf(side, "_") - 1)
             lengths == {k \in 1..Len(from) : IsRun(SubSeq(from, 1, k))}
         IN SubSeq(from, 1, CHOOSE k \in lengths : \A j \in lengths : j <= k)

\* for each thousands mark of a run, in order, the number of slots before it
MarksOf(run) ==
    LET marks == {i \in 1..Len(run) : run[i] = "."}
    IN [j \in 1..Cardinality(marks) |->
           LET i == CHOOSE m \in marks : Cardinality({n \in marks : n <= m}) = j
           IN Count(SubSeq(run, 1, i), "_")]

\* the mask has the combined form: a decimal numerator over a denominator
Combined(mask) == Includes(mask, "/") /\ Includes(mask, ",")

\* the runs of the mask that make up the segment of a type
RunsOf(mask, type) ==
    IF type = "integer" THEN <<RunOf(SplitHead(mask, ","))>>
    ELSE IF type = "fractional" THEN <<RunOf(SplitRest(mask, ","))>>
    ELSE IF type = "denominator" THEN <<RunOf(SplitRest(mask, "/"))>>
    ELSE IF Combined(mask) THEN <<RunOf(SplitHead(SplitHead(mask, "/"), ",")), RunOf(SplitRest(SplitHead(mask, "/"), ","))>>
    ELSE <<RunOf(SplitHead(mask, "/"))>>

\* the slots of the runs of a segment
SlotsOf(runs) == IF Len(runs) = 2 THEN Count(runs[1], "_") + Count(runs[2], "_") ELSE Count(runs[1], "_")

\* the thousands marks a segment lists
ListedMarks(segment) == IF IsSome(segment.thousandsSeparators) THEN Get(segment.thousandsSeparators) ELSE <<>>

\* the thousands marks of all the runs of a segment, each as the number of the
\* segment's slots before it
AllMarks(runs) ==
    IF Len(runs) = 2 THEN MarksOf(runs[1]) \o [j \in 1..Len(MarksOf(runs[2])) |-> Count(runs[1], "_") + MarksOf(runs[2])[j]]
    ELSE MarksOf(runs[1])

\* lengths, decimalSeparator and totalSlots of a returned format are those of its runs
SlotsCounted(mask, format) ==
    /\ \A i \in 1..Len(format.segments) :
           LET segment == format.segments[i]
               runs == RunsOf(mask, segment.type)
           IN /\ segment.length = SlotsOf(runs)
              /\ segment.decimalSeparator = IF Len(runs) = 2 THEN Some(Count(runs[1], "_")) ELSE None
    /\ format.totalSlots = IF Len(format.segments) = 2 THEN format.segments[1].length + format.segments[2].length
                           ELSE format.segments[1].length

\* C23: for every mask parseMask accepts, every segment's length is the number
\* of slots of its run (of both runs in the combined numerator, decimalSeparator
\* being the slots of the first), every thousands mark embedded in a run is listed
\* in thousandsSeparators as the number of slots before it, and totalSlots is the
\* sum of the lengths.
C23_SegmentsCountSlots ==
    Parsed => /\ SlotsCounted(returned.arg, returned.result)
              /\ \A i \in 1..Len(returned.result.segments) :
                     LET segment == returned.result.segments[i]
                     IN ListedMarks(segment) = AllMarks(RunsOf(returned.arg, segment.type))

\* C23 as amended: the thousands marks listed are those of the integer run, of the
\* integer portion of a combined numerator, and of the numerator and denominator
\* runs; a mark in a fractional run is not listed.
C23_SegmentsCountSlotsMarksOfIntegerRuns ==
    Parsed => /\ SlotsCounted(returned.arg, returned.result)
              /\ \A i \in 1..Len(returned.result.segments) :
                     LET segment == returned.result.segments[i]
                     IN ListedMarks(segment) = IF segment.type = "fractional" THEN <<>>
                                               ELSE MarksOf(RunsOf(returned.arg, segment.type)[1])

\* a decimal mask with a thousands mark in its fractional run
C23_Witness == /\ Parsed /\ returned.arg = <<"_", ",", "_", ".", "_">>
               /\ returned.result.segments[2].length = 2
               /\ returned.result.totalSlots = 3

\* C24: parseMask throws for every mask that has both a "/" and a "," and no
\* "," in the part before the "/".
C24_DecimalOnlyInNumerator ==
    (returned.call = "parseMask" /\ Combined(returned.arg) /\ ~Includes(SplitHead(returned.arg, "/"), ","))
        => returned.result.throws

\* a decimal denominator under a plain numerator is rejected
C24_Witness == /\ ParseThrew /\ returned.arg = <<"_", "/", "_", ",", "_">>
               /\ returned.result.message = "Complex mask: numerator must be a valid decimal format"

\* the side has no slot
NoSlot(side) == ~Includes(side, "_")

\* a side of the mask (numerator, denominator, integer or fractional) has no slot
SideWithoutSlot(mask) ==
    LET numerator == SplitHead(mask, "/")
    IN IF Includes(mask, "/")
       THEN \/ NoSlot(numerator) \/ NoSlot(SplitRest(mask, "/"))
            \/ Includes(numerator, ",") /\ (NoSlot(SplitHead(numerator, ",")) \/ NoSlot(SplitRest(numerator, ",")))
       ELSE Includes(mask, ",") /\ (NoSlot(SplitHead(mask, ",")) \/ NoSlot(SplitRest(mask, ",")))

C26_MalformedMaskNotConstructed ==
    ~(state.isPristine /\ state.lastAction = "undefined" /\ HasMask(config) /\ parseMask(Get(config.mask)).throws)

\* C27: when the mask of the configuration passed to reduceNumpad fails to parse
\* and the state carries a maskState, the returned state has the value, maskState
\* and validationError of the input state, whatever the action.
C27_ReparseFailureKeepsState ==
    [][(HasMask(config) /\ parseMask(Get(config.mask)).throws /\ IsSome(state.maskState)) =>
          state' = [state EXCEPT !.lastAction = dispatched', !.isPristine = FALSE]]_vars

\* a digit dispatched under a malformed mask has left a mask with room as it was
C27_Witness == /\ HasMask(config) /\ parseMask(Get(config.mask)).throws
               /\ dispatched = "digit" /\ state.lastAction = "digit"
               /\ previous = <<"1">> /\ state.value = <<"1">>
               /\ Get(state.maskState).segments = [integer |-> <<"1">>]

\* what the caller's last call of formatDisplayValue returned
Displayed == returned.result

\* C22: in a mask-mode state whose displayed number is below minValue the
\* validationError is "minValue", and where it is above maxValue (and not below
\* minValue) the validationError is "maxValue", for every mask type.
C22_MaskRangeValidated ==
    (returned.call = "formatDisplayValue" /\ IsSome(state.maskState) /\ IsSome(Displayed.numeric)) =>
        LET numeric == Get(Displayed.numeric)
        IN /\ (IsSome(config.minValue) /\ NumLess(numeric, Get(config.minValue))) => state.validationError = "minValue"
           /\ (IsSome(config.maxValue) /\ NumGreater(numeric, Get(config.maxValue)) /\ ~(IsSome(config.minValue) /\ NumLess(numeric, Get(config.minValue))))
                 => state.validationError = "maxValue"

\* C28: with allowDecimal a positive integer N, the formatted string of every
\* standard-mode state, formatted without a displayRule, has exactly N digits
\* after the configured decimal separator.
C28_PaddedToExactly ==
    (returned.call = "formatDisplayValue" /\ returned.arg.kind = "absent" /\ ~IsSome(state.maskState)
        /\ config.allowDecimal.isNum /\ config.allowDecimal.val > 0) =>
        LET places == SplitRest(Displayed.formatted, config.decimalSeparator)
        IN /\ Includes(Displayed.formatted, config.decimalSeparator)
           /\ Len(places) = config.allowDecimal.val
           /\ \A i \in 1..Len(places) : IsDigitChar(places[i])
\* C29: a displayRule that returns a string gives formatted that string, in
\* standard mode and in mask mode, and leaves raw and numeric as they are
\* without a rule.
C29_DisplayRuleOverrides ==
    (returned.call = "formatDisplayValue" /\ returned.arg.kind = "string") =>
        /\ Displayed.formatted = returned.arg.text
        /\ Displayed.raw = state.value
        /\ Displayed.numeric = formatDisplayValue(state, config, DisplayRule("absent", <<>>)).numeric

\* C30: when the displayRule throws, formatDisplayValue returns what it returns
\* without a rule (the default formatted string, the same raw and numeric);
\* when the keyValidator throws, mapKeyToAction returns null for the key.
C30_CallbackFailuresContained ==
    /\ (returned.call = "formatDisplayValue" /\ returned.arg.kind = "throws") =>
           /\ Displayed = formatDisplayValue(state, config, DisplayRule("absent", <<>>))
           /\ Displayed.raw = state.value
    /\ (returned.call = "mapKeyToAction" /\ returned.arg.keyValidator = "throws") => returned.result = None

\* a throwing displayRule on a typed value that the default formatting pads
C30_Witness == /\ returned.call = "formatDisplayValue" /\ returned.arg.kind = "throws"
               /\ state.lastAction = "digit" /\ state.value = <<"1">>
               /\ Displayed.formatted = <<"1", ",", "0">>

\* C32: with allowDecimal a number N, a value that sanitizeValue produced (the
\* value of a state just created, or just set) has at most N digits after the ".".
C32_SanitizeCapsDecimals ==
    (config.allowDecimal.isNum /\ ~IsSome(state.maskState) /\ (state.isPristine \/ state.lastAction = "set"))
        => Len(FractionOf(state.value)) <= config.allowDecimal.val

\* the value without its sign
Unsigned(value) == IF Len(value) > 0 /\ Head(value) = "-" THEN Tail(value) ELSE value

\* C36: in every reachable state of standard mode the value is "" or "-", or its
\* integer portion (the unsigned part before the ".") is a non-empty digit string
\* that is "0" or does not start with "0".
C36_NoLeadingZeros ==
    LET integer == SplitHead(Unsigned(state.value), ".")
    IN \/ state.value \in {<<>>, <<"-">>}
       \/ /\ Len(integer) > 0
          /\ \A i \in 1..Len(integer) : IsDigitChar(integer[i])
          /\ integer = <<"0">> \/ integer[1] # "0"

\* a delete that takes the mark off "-0." and leaves the single zero
C36_Witness == /\ state.lastAction = "delete" /\ previous = <<"-", "0", ".">> /\ state.value = <<"-", "0">>
               /\ config.decimalSeparator = ","

\* the state after n dispatches of delete
RECURSIVE DeleteTimes(_, _)
DeleteTimes(st, n) == IF n = 0 THEN st ELSE DeleteTimes(reduceNumpad(st, [type |-> "delete"], config), n - 1)

\* C37: in mask mode, from every reachable state, dispatching delete again and
\* again reaches a state in which every segment is empty (each delete that
\* changes the state removes a character or steps back a segment, so as many
\* deletes as the mask has slots and segments decide it).
C37_DeleteEmptiesMask ==
    LET emptied == Get(DeleteTimes(state, Format.totalSlots + Len(Format.segments)).maskState)
    IN \A type \in DOMAIN emptied.segments : emptied.segments[type] = <<>>

\* C39: in mask mode every character stored in every segment is a digit, in
\* every reachable state, those created from an initial value and those a set
\* action produced included.
C39_SegmentsHoldDigits ==
    \A type \in DOMAIN MaskState.segments :
        \A i \in 1..Len(MaskState.segments[type]) : IsDigitChar(MaskState.segments[type][i])

\* C38: from an empty mask state and under digit, delete and clear alone, every
\* segment before activeSegment is full and every segment after it is empty.
C38_ContiguousFill ==
    LET active == FindIndex(Format, MaskState.activeSegment)
    IN \A i \in 1..Len(Format.segments) :
           LET segment == Format.segments[i]
           IN /\ i < active => Len(MaskState.segments[segment.type]) = segment.length
              /\ i > active => MaskState.segments[segment.type] = <<>>

\* a delete has emptied the denominator under a full numerator and stays there
C38_Witness == /\ dispatched = "delete" /\ config.mask = Some(<<"_", "_", "/", "_">>)
               /\ MaskState.activeSegment = "denominator"
               /\ MaskState.segments["numerator"] = <<"1", "0">>
               /\ MaskState.segments["denominator"] = <<>>

\* the digit of each digit key of the model
KeyDigit == ("0" :> 0) @@ ("1" :> 1) @@ ("9" :> 9)

\* C31: mapKeyToAction maps a digit key to the digit action with that digit,
\* "." or the configured mark to decimal only when allowDecimal is truthy,
\* Backspace to delete, Delete to clear, "-" to toggle-sign only when
\* allowNegative is true, Enter to submit and every other key to null; and it
\* returns null for every key when a key validator is supplied and returns false.
C31_KeyMap ==
    returned.call = "mapKeyToAction" =>
        LET key == returned.arg.key
            decimal == config.allowDecimal \notin {AllowDecimalBool(FALSE), AllowDecimalNum(0)}
            mark == key \in {".", config.decimalSeparator}
        IN /\ returned.arg.keyValidator = "false" => returned.result = None
           /\ returned.arg.keyValidator \in {"absent", "true"} =>
                 /\ key \in DOMAIN KeyDigit => returned.result = Some([type |-> "digit", digit |-> KeyDigit[key]])
                 /\ (mark /\ decimal) => returned.result = Some([type |-> "decimal"])
                 /\ (mark /\ ~decimal) => returned.result = None
                 /\ key = "Backspace" => returned.result = Some([type |-> "delete"])
                 /\ key = "Delete" => returned.result = Some([type |-> "clear"])
                 /\ (key = "-" /\ config.allowNegative) => returned.result = Some([type |-> "toggle-sign"])
                 /\ (key = "-" /\ ~config.allowNegative) => returned.result = None
                 /\ key = "Enter" => returned.result = Some([type |-> "submit"])
                 /\ key = "a" => returned.result = None

\* the configured mark is pressed while allowDecimal is 0, and maps to nothing
C31_Witness == /\ returned.call = "mapKeyToAction" /\ returned.arg = [key |-> ",", keyValidator |-> "true"]
               /\ config.decimalSeparator = "," /\ config.allowDecimal = AllowDecimalNum(0)
               /\ returned.result = None

\* the calls of a callback among the calls of the last event
CallsOf(callback) == {i \in DOMAIN dom.calls : dom.calls[i].callback = callback}

\* C33: with sync disabled, onChange is called only for a submit dispatch, once
\* and with the state after the transition, and never for a digit, decimal,
\* delete, clear, toggle-sign or set dispatch.
C33_OnChangeOnlyOnSubmit ==
    ~config.sync =>
        IF dispatched = "submit" /\ dom.options.onChange
        THEN /\ Cardinality(CallsOf("onChange")) = 1
             /\ \A i \in CallsOf("onChange") : dom.calls[i].state = state
        ELSE CallsOf("onChange") = {}

\* a submit of "1" without sync has called onChange and then onSubmit
C33_Witness == /\ ~config.sync /\ dispatched = "submit" /\ previous = <<"1">>
               /\ Len(dom.calls) = 2 /\ dom.calls[1].callback = "onChange"
               /\ dom.calls[1].state.value = <<"1">> /\ dom.calls[1].state.lastAction = "submit"

\* C34: with sync enabled, onChange is called on every dispatched edit (digit,
\* decimal, delete, clear, toggle-sign, set), with the state after the
\* transition and its display value.
C34_OnChangeOnEveryEdit ==
    (config.sync /\ dom.options.onChange /\ dispatched \in {"digit", "decimal", "delete", "clear", "toggle-sign", "set"})
        => \E i \in CallsOf("onChange") : dom.calls[i].state = state /\ dom.calls[i].display = dom.display

\* C35: onSubmit is called exactly once for a submit dispatch and for no other
\* action, whatever sync is, after the state has been updated and after the
\* onChange call of the same dispatch; the state it receives has the value held
\* before the submit.
C35_OnSubmitOncePerSubmit ==
    IF dispatched = "submit" /\ dom.options.onSubmit
    THEN /\ CallsOf("onSubmit") = {Len(dom.calls)}
         /\ dom.calls[Len(dom.calls)].held = state
         /\ dom.calls[Len(dom.calls)].state = state
         /\ state.value = previous
    ELSE CallsOf("onSubmit") = {}

\* a submit of "1" under sync has called onChange and then onSubmit
C35_Witness == /\ config.sync /\ dispatched = "submit" /\ previous = <<"1">>
               /\ Len(dom.calls) = 2 /\ dom.calls[1].callback = "onChange" /\ dom.calls[2].callback = "onSubmit"
               /\ dom.calls[2].state.value = <<"1">>

\* C40: with a mask configured, whenever construction or a dispatch has left the
\* mask complete every digit button is disabled; and a click on a disabled
\* button dispatches nothing and leaves the state as it was.
C40_CompleteMaskDisablesDigits ==
    /\ []((HasMask(config) /\ IsSome(state.maskState) /\ isMaskComplete(MaskState, Format))
             => \A d \in Digits : DigitStr(d) \in dom.disabled)
    /\ [][(dom'.event.kind = "click" /\ dom'.event.key \in dom.disabled)
             => (state' = state /\ dispatched' = "none" /\ dom'.calls = <<>>)]_vars

====
